---- MODULE Spec2Model ----
(***************************************************************************)
(* Model of the process-based execution engine of xangi:                   *)
(*   - PersistentRunner (src/src/persistent-runner.ts): one worker         *)
(*     process per Session, a FIFO request queue, the line-oriented        *)
(*     output parser, timeout, cancel, crash counting / circuit breaker;   *)
(*   - RunnerManager (src/unnamed/part_001): the bounded pool of           *)
(*     PersistentRunners with LRU eviction and the idle sweep.             *)
(* Four specifications share the definitions of the handlers:              *)
(*   Spec        one Session, every caller operation and process event;    *)
(*   BreakerSpec one Session over more requests and a longer clock, the    *)
(*               worker writing whole lines, for the circuit breaker;      *)
(*   CancelSpec  one Session with run, cancel and the process and timer    *)
(*               events; FairCancelSpec adds the fairness of the event     *)
(*               loop, for what eventually happens after a cancel;         *)
(*   PoolSpec    the pool and the Sessions it holds.                       *)
(***************************************************************************)
EXTENDS Integers, Sequences, FiniteSets, TLC

\* ------------------------------------------------------------------ bounds
MaxReq == 3        \* Spec: requests a caller enqueues on the Session
MaxTicks == 1      \* Spec: clock advances
MaxReqB == 5       \* BreakerSpec: requests
MaxReqC == 5       \* CancelSpec: requests
MaxTicksC == 1     \* CancelSpec: clock advances
MaxTicksB == 2     \* BreakerSpec: clock advances
MaxPoolReq == 3    \* PoolSpec: requests callers dispatch to the pool
MaxPoolTicks == 2  \* PoolSpec: clock advances
MaxCap == 2        \* PoolSpec: largest configured maxProcesses
MaxLen == 2        \* MergeSpec: longest text, in characters
MaxReqT == 2       \* TextSpec: requests
MaxText == 2       \* TextSpec: characters a worker streams before more are held back
MaxReqE == 3       \* ErrorSpec: requests
MaxPoolReqR == 4   \* RecencySpec: requests dispatched to the pool
MaxOut == 5        \* FramingSpec: fragments of the worker's output
MaxReqI == 4       \* IdleSpec: requests
MaxReqK == 4       \* KillSpec: requests

\* ------------------------------------------------- constants of the program
MAX_CRASHES == 3
CRASH_WINDOW_MS == 60000

\* the clock starts late enough for Date.now() - 0 to exceed the window and
\* advances by one window
TickMs == CRASH_WINDOW_MS
StartTime == 2 * CRASH_WINDOW_MS

\* RunnerManager
DEFAULT_CHANNEL == "__default__"
CLEANUP_INTERVAL_MS == 5 * 60 * 1000
\* the configured idleTimeoutMs
IdleTimeoutMs == CLEANUP_INTERVAL_MS
\* the channel ids callers pass, the empty string among them
Keys == {"", "A", "B"}
\* options.channelId: absent, or a key
ChannelArgs == {<<>>} \cup {<<k>> : k \in Keys}
\* the continuation tokens callers pass
Tokens == {"u1", "u2"}
NullKey == "<null>"

\* ------------------------------------------------------------ wire format
\* The worker's output is a sequence of fragments: the JSON text of an event,
\* or the newline "nl". A data event delivers any non-empty run of fragments.
NL == "nl"
OkLine == <<"ok">>       \* {"type":"result","is_error":false}
ErrLine == <<"err">>     \* {"type":"result","is_error":true}
InitLine == <<"init">>   \* {"type":"system","session_id":"t1"}
TextALine == <<"textA">>    \* {"type":"assistant","message":{"content":[text a]}}
TextBALine == <<"textBA">>  \* ... "content":[text b, tool_use, text a]
OkALine == <<"okA">>     \* {"type":"result","result":"a","session_id":"t2"}
OkBLine == <<"okB">>     \* {"type":"result","result":"b"}
ErrALine == <<"errA">>   \* {"type":"result","is_error":true,"result":"a"}
\* the JSON text of OkLine in two fragments; one of them alone does not parse
OkLongLine == <<"{ok", "ok}">>
\* a fragment of white space
SP == " "
\* the message of new Error('Unknown error'), as a text
UnknownError == <<"Unknown error">>
\* the messages of the errors of a timeout and of a cancel
TimedOutError == <<"Request timed out">>
CancelledError == <<"Request cancelled by user">>

VARIABLES
  \* fields of PersistentRunner
  process,        \* handle of the current worker process, 0 = null
  processAlive,
  queue,          \* request ids, head first
  currentItem,    \* request id, 0 = null
  buffer,         \* the incomplete last line of the output
  sessionId,      \* "" before a worker reported one
  fullText,       \* the text streamed for the current request
  shuttingDown,
  cancelling,
  crashCount,
  lastCrashTime,
  crashTimes,     \* history: the times of the crashes counted in crashCount
  \* environment of the Session
  now,            \* Date.now()
  procs,          \* the spawned processes: state, undelivered output, unanswered writes
  nextReq,        \* id of the next request a caller enqueues
  settledSet,     \* the requests whose promise is settled
  lastSettled,    \* the promises the last step settled, in order: <<request, outcome>>
  timers,         \* requests whose timeout timer is armed
  sentTo,         \* per request: the process its line was written to, 0 = not written
  crashed,        \* an exception escaped an event-loop handler
  calls,          \* what the last step passed to the callbacks and to the
                  \* promise of the current request, in order
  \* fields of RunnerManager
  pool,           \* the Map in insertion order: [key, lastUsed, runner]
  maxProcesses,
  cleanupInterval,  \* the sweep timer is set
  poolNextReq,    \* id of the next request a caller dispatches to the pool
  lastReturn,     \* what the last call of cancel or destroy returned, else "none"
  lastSwept,      \* the keys the last step's idle sweep removed, in order
  \* a call of mergeTexts
  streamed,       \* its first argument
  result,         \* its second argument
  merged,         \* <<the value it returned>>, <<>> before the call
  \* a Session that reads the output of its worker
  output,         \* what the worker wrote
  unread,         \* the part of it no data event has delivered yet
  chunk,          \* what the last data event delivered
  framed,         \* the Session after the data events so far
  \* a Session whose kills are told apart
  timedOut        \* the processes that a timeout callback killed

vars == <<process, processAlive, queue, currentItem, buffer, sessionId, fullText,
          calls, shuttingDown,
          cancelling, crashCount, lastCrashTime, crashTimes, now, procs, nextReq, settledSet,
          lastSettled, timers, sentTo, crashed,
          pool, maxProcesses, cleanupInterval, poolNextReq, lastReturn, lastSwept,
          streamed, result, merged, output, unread, chunk, framed, timedOut>>

sessionVars == <<process, processAlive, queue, currentItem, buffer, sessionId,
                 fullText, calls, shuttingDown,
                 cancelling, crashCount, lastCrashTime, crashTimes, procs, nextReq,
                 settledSet, lastSettled, timers, sentTo, crashed>>

poolVars == <<pool, maxProcesses, cleanupInterval, poolNextReq, lastReturn, lastSwept>>

mergeVars == <<streamed, result, merged>>

frameVars == <<output, unread, chunk, framed>>

Reqs == 1..MaxReq

\* ------------------------------------------------------------------ helpers
SeqToSet(s) == {s[i] : i \in 1..Len(s)}

NoProc == [st |-> "unspawned", out |-> <<>>, pending |-> 0]

Spawned(ps) == {p \in DOMAIN ps : ps[p].st # "unspawned"}

\* The state of the Session and its environment as one value, so that a
\* handler that calls other methods is one step.
State ==
  [process |-> process, processAlive |-> processAlive, queue |-> queue,
   currentItem |-> currentItem, buffer |-> buffer, sessionId |-> sessionId,
   fullText |-> fullText, calls |-> <<>>, shuttingDown |-> shuttingDown,
   cancelling |-> cancelling, crashCount |-> crashCount,
   lastCrashTime |-> lastCrashTime, crashTimes |-> crashTimes, now |-> now,
   procs |-> procs,
   settledSet |-> settledSet, lastSettled |-> <<>>, timers |-> timers, sentTo |-> sentTo,
   threw |-> FALSE, overflow |-> FALSE]

Commit(s) ==
  /\ ~s.overflow
  /\ process' = s.process
  /\ processAlive' = s.processAlive
  /\ queue' = s.queue
  /\ currentItem' = s.currentItem
  /\ buffer' = s.buffer
  /\ sessionId' = s.sessionId
  /\ fullText' = s.fullText
  /\ calls' = s.calls
  /\ shuttingDown' = s.shuttingDown
  /\ cancelling' = s.cancelling
  /\ crashCount' = s.crashCount
  /\ lastCrashTime' = s.lastCrashTime
  /\ crashTimes' = s.crashTimes
  /\ procs' = s.procs
  /\ settledSet' = s.settledSet
  /\ lastSettled' = s.lastSettled
  /\ timers' = s.timers
  /\ sentTo' = s.sentTo

\* A promise settles once: the first resolve or reject wins.
Settle(s, r, outcome) ==
  IF r \in s.settledSet THEN s
  ELSE [s EXCEPT !.settledSet = @ \cup {r}, !.lastSettled = Append(@, <<r, outcome>>)]

\* item.resolve / item.reject without clearTimeout
ItemSettleKeepTimer(s, r, outcome) == Settle(s, r, outcome)

\* item.resolve / item.reject of an item: after dispatch they are the wrappers
\* that clear the item's timer first.
ItemSettle(s, r, outcome) ==
  Settle([s EXCEPT !.timers = @ \ {r}], r, outcome)

\* ---------------------------------------------------------------- mergeTexts
\* a text is a sequence of characters
Chars == {"a", "b", "\n"}

TextsUpTo(n) == UNION {[1..k -> Chars] : k \in 0..n}

\* String.prototype.endsWith
EndsWith(str, searchString) ==
  /\ Len(searchString) <= Len(str)
  /\ SubSeq(str, Len(str) - Len(searchString) + 1, Len(str)) = searchString

\* mergeTexts that lets a final text replace the streamed text
mergeTextsResultWins(s, r) == IF r = <<>> THEN s ELSE r

\* mergeTexts without the test for a final text that repeats the end of
\* the streamed text
mergeTextsNoOverlap(s, r) ==
  IF r = <<>> THEN s
  ELSE IF s = <<>> THEN r
  ELSE IF EndsWith(r, s) THEN r
  ELSE s \o <<"\n">> \o r

mergeTexts(s, r) ==
  IF r = <<>> THEN s
  ELSE IF s = <<>> THEN r
  ELSE IF EndsWith(s, r) THEN s
  ELSE IF EndsWith(r, s) THEN r
  ELSE s \o <<"\n">> \o r

\* --------------------------------------------------------- PersistentRunner
\* the circuit breaker check without the cooldown
CircuitOpenForever(s) == s.crashCount >= MAX_CRASHES

getCircuitBreakerStatus(s) ==
  [open |-> s.crashCount >= MAX_CRASHES /\ s.now - s.lastCrashTime < CRASH_WINDOW_MS,
   crashCount |-> s.crashCount,
   lastCrashTime |-> s.lastCrashTime]

CircuitOpen(s) ==
  /\ s.crashCount >= MAX_CRASHES
  /\ s.now - s.lastCrashTime < CRASH_WINDOW_MS

ensureProcess(s) ==
  IF s.process # 0 /\ s.processAlive THEN s
  ELSE IF CircuitOpen(s) THEN [s EXCEPT !.threw = TRUE]
  ELSE IF Spawned(s.procs) = DOMAIN s.procs THEN [s EXCEPT !.overflow = TRUE]
  ELSE
    LET p == Cardinality(Spawned(s.procs)) + 1 IN
    [s EXCEPT !.crashCount = IF @ >= MAX_CRASHES THEN 0 ELSE @,
              !.crashTimes = IF s.crashCount >= MAX_CRASHES THEN <<>> ELSE @,
              !.process = p,
              !.processAlive = TRUE,
              !.procs[p] = [st |-> "running", out |-> <<>>, pending |-> 0]]

\* processNext taking the newest request instead of the oldest
processNextLifo(s) ==
  IF s.currentItem # 0 \/ s.queue = <<>> THEN s
  ELSE
    LET n == Len(s.queue)
        s1 == [s EXCEPT !.currentItem = s.queue[n], !.queue = SubSeq(s.queue, 1, n - 1),
                        !.fullText = <<>>]
        s2 == ensureProcess(s1)
    IN IF s2.threw \/ s2.overflow THEN s2
       ELSE [s2 EXCEPT !.procs[s2.process].pending = @ + 1,
                       !.sentTo[s2.currentItem] = s2.process,
                       !.timers = @ \cup {s2.currentItem}]

\* processNext without the check for a request in flight
processNextBusy(s) ==
  IF s.queue = <<>> THEN s
  ELSE
    LET s1 == [s EXCEPT !.currentItem = Head(s.queue), !.queue = Tail(s.queue),
                        !.fullText = <<>>]
        s2 == ensureProcess(s1)
    IN IF s2.threw \/ s2.overflow THEN s2
       ELSE [s2 EXCEPT !.procs[s2.process].pending = @ + 1,
                       !.sentTo[s2.currentItem] = s2.process,
                       !.timers = @ \cup {s2.currentItem}]

processNext(s) ==
  IF s.currentItem # 0 \/ s.queue = <<>> THEN s
  ELSE
    LET s1 == [s EXCEPT !.currentItem = Head(s.queue), !.queue = Tail(s.queue),
                        !.fullText = <<>>]
        s2 == ensureProcess(s1)
    IN IF s2.threw \/ s2.overflow THEN s2
       ELSE [s2 EXCEPT !.procs[s2.process].pending = @ + 1,
                       !.sentTo[s2.currentItem] = s2.process,
                       !.timers = @ \cup {s2.currentItem}]

\* a call of a callback of the current request, or of its resolve or reject
Call(s, cb, text, full, sid) ==
  IF s.currentItem = 0 THEN s
  ELSE [s EXCEPT !.calls = Append(@, [cb |-> cb, text |-> text, full |-> full,
                                      sessionId |-> sid])]

\* the loop over message.content; a block that is no text, or an empty one,
\* is <<>>
RECURSIVE OnTextBlocks(_, _)
OnTextBlocks(s, content) ==
  IF content = <<>> THEN s
  ELSE IF Head(content) = <<>> THEN OnTextBlocks(s, Tail(content))
  ELSE
    LET text == Head(content)
        s1 == [s EXCEPT !.fullText = @ \o text]
    IN OnTextBlocks(Call(s1, "onText", text, s1.fullText, ""), Tail(content))

\* the result event without the merge: the final text alone is the result
onResultFinalOnly(s, json) ==
  LET s1 == IF json.session_id # "" THEN [s EXCEPT !.sessionId = json.session_id] ELSE s
      s2 == IF json.is_error THEN
              LET error == IF json.result # <<>> THEN json.result ELSE UnknownError
                  s3 == Call(Call(s1, "onError", error, <<>>, ""), "reject", error, <<>>, "")
              IN IF s3.currentItem = 0 THEN s3
                 ELSE ItemSettle(s3, s3.currentItem, "upstream")
            ELSE
              LET s3 == IF json.result # <<>>
                        THEN [s1 EXCEPT !.fullText = json.result]
                        ELSE s1
                  s4 == Call(Call(s3, "onComplete", s3.fullText, <<>>, s3.sessionId),
                             "resolve", s3.fullText, <<>>, s3.sessionId)
              IN IF s4.currentItem = 0 THEN s4
                 ELSE ItemSettle(s4, s4.currentItem, "resolved")
  IN processNext([s2 EXCEPT !.currentItem = 0, !.fullText = <<>>])

\* the branch of handleJsonMessage for a result event
onResult(s, json) ==
  LET s1 == IF json.session_id # "" THEN [s EXCEPT !.sessionId = json.session_id] ELSE s
      s2 == IF json.is_error THEN
              LET error == IF json.result # <<>> THEN json.result ELSE UnknownError
                  s3 == Call(Call(s1, "onError", error, <<>>, ""), "reject", error, <<>>, "")
              IN IF s3.currentItem = 0 THEN s3
                 ELSE ItemSettle(s3, s3.currentItem, "upstream")
            ELSE
              LET s3 == IF json.result # <<>>
                        THEN [s1 EXCEPT !.fullText = mergeTexts(@, json.result)]
                        ELSE s1
                  s4 == Call(Call(s3, "onComplete", s3.fullText, <<>>, s3.sessionId),
                             "resolve", s3.fullText, <<>>, s3.sessionId)
              IN IF s4.currentItem = 0 THEN s4
                 ELSE ItemSettle(s4, s4.currentItem, "resolved")
  IN processNext([s2 EXCEPT !.currentItem = 0, !.fullText = <<>>])

handleJsonMessage(s, json) ==
  LET s1 == IF json.type = "system" /\ json.session_id # ""
            THEN [s EXCEPT !.sessionId = json.session_id]
            ELSE s
      s2 == IF json.type = "assistant" THEN OnTextBlocks(s1, json.content) ELSE s1
  IN IF json.type = "result" THEN onResult(s2, json) ELSE s2

\* a parsed line: absent fields are "", <<>> or FALSE, the falsy values the
\* handler takes them for
Json(type, is_error, final, session_id, content) ==
  [type |-> type, is_error |-> is_error, result |-> final,
   session_id |-> session_id, content |-> content]

\* String.prototype.trim, which JSON.parse does too
RECURSIVE Trim(_)
Trim(line) ==
  IF line = <<>> THEN line
  ELSE IF Head(line) = SP THEN Trim(Tail(line))
  ELSE IF line[Len(line)] = SP THEN Trim(SubSeq(line, 1, Len(line) - 1))
  ELSE line

\* JSON.parse of one line; type "unparseable" when it throws
ParseLine(padded) ==
  LET line == Trim(padded) IN
  IF line = OkLine \/ line = OkLongLine THEN Json("result", FALSE, <<>>, "", <<>>)
  ELSE IF line = ErrLine THEN Json("result", TRUE, <<>>, "", <<>>)
  ELSE IF line = InitLine THEN Json("system", FALSE, <<>>, "t1", <<>>)
  ELSE IF line = TextALine THEN Json("assistant", FALSE, <<>>, "", << <<"a">> >>)
  ELSE IF line = TextBALine
       THEN Json("assistant", FALSE, <<>>, "", << <<"b">>, <<>>, <<"a">> >>)
  ELSE IF line = OkALine THEN Json("result", FALSE, <<"a">>, "t2", <<>>)
  ELSE IF line = OkBLine THEN Json("result", FALSE, <<"b">>, "", <<>>)
  ELSE IF line = ErrALine THEN Json("result", TRUE, <<"a">>, "", <<>>)
  ELSE Json("unparseable", FALSE, <<>>, "", <<>>)

\* data.split('\n'): the complete lines and the rest
RECURSIVE SplitLines(_, _, _)
SplitLines(data, cur, acc) ==
  IF data = <<>> THEN [lines |-> acc, rest |-> cur]
  ELSE IF Head(data) = NL THEN SplitLines(Tail(data), <<>>, Append(acc, cur))
  ELSE SplitLines(Tail(data), Append(cur, Head(data)), acc)

RECURSIVE HandleLines(_, _)
HandleLines(s, lines) ==
  IF lines = <<>> \/ s.overflow THEN s
  ELSE
    LET line == Head(lines)
        json == ParseLine(line)
        s1 == IF Trim(line) = <<>> \/ json.type = "unparseable" THEN s
              ELSE [handleJsonMessage(s, json) EXCEPT !.threw = FALSE]
    IN HandleLines(s1, Tail(lines))

\* the loop of handleOutput with the try around it: an unparseable line
\* ends the read
RECURSIVE HandleLinesAbort(_, _)
HandleLinesAbort(s, lines) ==
  IF lines = <<>> \/ s.overflow THEN s
  ELSE
    LET line == Head(lines)
        json == ParseLine(line)
    IN IF Trim(line) = <<>> THEN HandleLinesAbort(s, Tail(lines))
       ELSE IF json.type = "unparseable" THEN s
       ELSE HandleLinesAbort([handleJsonMessage(s, json) EXCEPT !.threw = FALSE],
                             Tail(lines))

handleOutputAbort(s, data) ==
  LET sp == SplitLines(s.buffer \o data, <<>>, <<>>)
  IN HandleLinesAbort([s EXCEPT !.buffer = sp.rest], sp.lines)

\* handleOutput without the buffer: every read is split by itself
handleOutputNoBuffer(s, data) ==
  LET sp == SplitLines(data, <<>>, <<>>)
  IN HandleLines([s EXCEPT !.buffer = sp.rest], sp.lines)

handleOutput(s, data) ==
  LET sp == SplitLines(s.buffer \o data, <<>>, <<>>)
  IN HandleLines([s EXCEPT !.buffer = sp.rest], sp.lines)

RECURSIVE RejectAll(_, _, _)
RejectAll(s, items, outcome) ==
  IF items = <<>> THEN s
  ELSE RejectAll(Settle(s, Head(items), outcome), Tail(items), outcome)

\* the close handler without the rejection of the queue at the third crash
onCloseKeepQueue(s, p) ==
  LET s0 == [s EXCEPT !.procs[p] = [st |-> "closed", out |-> <<>>, pending |-> 0],
                      !.process = 0,
                      !.processAlive = FALSE,
                      !.buffer = <<>>]
  IN IF s.shuttingDown THEN s0
     ELSE IF s0.cancelling THEN
       LET s1 == [s0 EXCEPT !.cancelling = FALSE]
       IN IF s1.queue # <<>> THEN processNext(s1) ELSE s1
     ELSE
       LET s1 == [s0 EXCEPT !.crashCount = @ + 1, !.lastCrashTime = s0.now,
                            !.crashTimes = Append(@, s0.now)]
           s2 == IF s1.currentItem # 0
                 THEN [ItemSettle(s1, s1.currentItem, "exit") EXCEPT !.currentItem = 0]
                 ELSE s1
       IN IF s2.queue # <<>> /\ s2.crashCount < MAX_CRASHES THEN processNext(s2)
          ELSE s2

\* the close handler without the restart of the queue after a cancel
onCloseNoResume(s, p) ==
  LET s0 == [s EXCEPT !.procs[p] = [st |-> "closed", out |-> <<>>, pending |-> 0],
                      !.process = 0,
                      !.processAlive = FALSE,
                      !.buffer = <<>>]
  IN IF s.shuttingDown THEN s0
     ELSE IF s0.cancelling THEN [s0 EXCEPT !.cancelling = FALSE]
     ELSE
       LET s1 == [s0 EXCEPT !.crashCount = @ + 1, !.lastCrashTime = s0.now,
                            !.crashTimes = Append(@, s0.now)]
           s2 == IF s1.currentItem # 0
                 THEN [ItemSettle(s1, s1.currentItem, "exit") EXCEPT !.currentItem = 0]
                 ELSE s1
       IN IF s2.queue # <<>> /\ s2.crashCount < MAX_CRASHES THEN processNext(s2)
          ELSE IF s2.crashCount >= MAX_CRASHES
               THEN [RejectAll(s2, s2.queue, "breaker") EXCEPT !.queue = <<>>]
          ELSE s2

onClose(s, p) ==
  LET s0 == [s EXCEPT !.procs[p] = [st |-> "closed", out |-> <<>>, pending |-> 0],
                      !.process = 0,
                      !.processAlive = FALSE,
                      !.buffer = <<>>]
  IN IF s.shuttingDown THEN s0
     ELSE IF s0.cancelling THEN
       LET s1 == [s0 EXCEPT !.cancelling = FALSE]
       IN IF s1.queue # <<>> THEN processNext(s1) ELSE s1
     ELSE
       LET s1 == [s0 EXCEPT !.crashCount = @ + 1, !.lastCrashTime = s0.now,
                            !.crashTimes = Append(@, s0.now)]
           s2 == IF s1.currentItem # 0
                 THEN [ItemSettle(s1, s1.currentItem, "exit") EXCEPT !.currentItem = 0]
                 ELSE s1
       IN IF s2.queue # <<>> /\ s2.crashCount < MAX_CRASHES THEN processNext(s2)
          ELSE IF s2.crashCount >= MAX_CRASHES
               THEN [RejectAll(s2, s2.queue, "breaker") EXCEPT !.queue = <<>>]
          ELSE s2

onError(s, p) ==
  LET s0 == [s EXCEPT !.procs[p].st = "failed", !.procs[p].out = <<>>,
                      !.process = 0,
                      !.processAlive = FALSE]
  IN IF s0.currentItem # 0
     THEN [ItemSettle(s0, s0.currentItem, "error") EXCEPT !.currentItem = 0]
     ELSE s0

kill(s) ==
  [s EXCEPT !.procs[s.process].st = IF @ = "running" THEN "killed" ELSE @]

onTimeout(s, t) ==
  LET s0 == [s EXCEPT !.timers = @ \ {t}]
  IN IF s0.currentItem = 0 THEN s0
     ELSE
       LET s1 == [ItemSettle(Call(s0, "onError", TimedOutError, <<>>, ""),
                             s0.currentItem, "timeout") EXCEPT !.currentItem = 0]
           s2 == IF s1.process # 0
                 THEN [kill(s1) EXCEPT !.process = 0, !.processAlive = FALSE,
                                       !.buffer = <<>>]
                 ELSE s1
       IN processNext(s2)

run(s, r) ==
  LET s1 == processNext([s EXCEPT !.queue = Append(@, r)])
  IN IF s1.threw THEN [Settle(s1, r, "breaker") EXCEPT !.threw = FALSE] ELSE s1

cancelReturns(s) == s.currentItem # 0

cancel(s) ==
  IF s.currentItem = 0 THEN s
  ELSE
    LET s1 == [ItemSettle(Call(s, "onError", CancelledError, <<>>, ""),
                          s.currentItem, "cancelled") EXCEPT !.currentItem = 0,
                                                             !.fullText = <<>>]
    IN IF s1.process # 0
       THEN [kill(s1) EXCEPT !.cancelling = TRUE, !.process = 0,
                             !.processAlive = FALSE, !.buffer = <<>>]
       ELSE processNext(s1)

shutdown(s) ==
  IF s.process = 0 THEN s
  ELSE
    LET s1 == [kill(s) EXCEPT !.shuttingDown = TRUE, !.process = 0,
                              !.processAlive = FALSE, !.buffer = <<>>]
        s2 == [RejectAll(s1, s1.queue, "shutdown") EXCEPT !.queue = <<>>]
    IN IF s2.currentItem # 0
       THEN [ItemSettle(s2, s2.currentItem, "shutdown") EXCEPT !.currentItem = 0]
       ELSE s2

resetCircuitBreaker(s) ==
  [s EXCEPT !.crashCount = 0, !.lastCrashTime = 0, !.crashTimes = <<>>]

\* --------------------------------------------------- one Session: actions
InitSession(reqs) ==
  [process |-> 0, processAlive |-> FALSE, queue |-> <<>>, currentItem |-> 0,
   buffer |-> <<>>, sessionId |-> "", fullText |-> <<>>, calls |-> <<>>,
   shuttingDown |-> FALSE, cancelling |-> FALSE,
   crashCount |-> 0, lastCrashTime |-> 0, crashTimes |-> <<>>, now |-> StartTime,
   procs |-> [p \in reqs |-> NoProc],
   settledSet |-> {}, lastSettled |-> <<>>, timers |-> {},
   sentTo |-> [r \in reqs |-> 0], threw |-> FALSE, overflow |-> FALSE]

\* the state after construction; every spawn is made by the dispatch of one
\* request, so there are no more processes than requests
InitWith(reqs) ==
  LET s == InitSession(reqs) IN
  /\ process = s.process
  /\ processAlive = s.processAlive
  /\ queue = s.queue
  /\ currentItem = s.currentItem
  /\ buffer = s.buffer
  /\ sessionId = s.sessionId
  /\ fullText = s.fullText
  /\ calls = s.calls
  /\ shuttingDown = s.shuttingDown
  /\ cancelling = s.cancelling
  /\ crashCount = s.crashCount
  /\ lastCrashTime = s.lastCrashTime
  /\ crashTimes = s.crashTimes
  /\ now = s.now
  /\ procs = s.procs
  /\ nextReq = 1
  /\ settledSet = s.settledSet
  /\ lastSettled = s.lastSettled
  /\ timers = s.timers
  /\ sentTo = s.sentTo
  /\ crashed = FALSE

\* no call of mergeTexts
NoMerge ==
  /\ streamed = <<>>
  /\ result = <<>>
  /\ merged = <<>>

\* no worker output to frame, no kill recorded
NoFrame ==
  /\ output = <<>>
  /\ unread = <<>>
  /\ chunk = <<>>
  /\ framed = <<>>
  /\ timedOut = {}

\* no RunnerManager
NoPool ==
  /\ pool = <<>>
  /\ maxProcesses = 0
  /\ cleanupInterval = FALSE
  /\ poolNextReq = 1
  /\ lastReturn = "none"
  /\ lastSwept = <<>>

envVars == <<process, processAlive, queue, currentItem, buffer, sessionId, fullText,
             shuttingDown,
             cancelling, crashCount, lastCrashTime, crashTimes, settledSet,
             timers, sentTo, crashed>>

\* a caller calls run or runStream
Run(maxReq) ==
  /\ ~crashed
  /\ nextReq <= maxReq
  /\ Commit(run(State, nextReq))
  /\ nextReq' = nextReq + 1
  /\ UNCHANGED <<now, crashed>>
  /\ UNCHANGED <<poolVars, mergeVars, frameVars, timedOut>>

\* a caller calls cancel; an exception of processNext propagates to the caller
Cancel ==
  /\ ~crashed
  /\ Commit(cancel(State))
  /\ UNCHANGED <<now, nextReq, crashed>>
  /\ UNCHANGED <<poolVars, mergeVars, frameVars, timedOut>>

Shutdown ==
  /\ ~crashed
  /\ Commit(shutdown(State))
  /\ UNCHANGED <<now, nextReq, crashed>>
  /\ UNCHANGED <<poolVars, mergeVars, frameVars, timedOut>>

ResetCircuitBreaker ==
  /\ ~crashed
  /\ crashCount # 0 \/ lastCrashTime # 0
  /\ Commit(resetCircuitBreaker(State))
  /\ UNCHANGED <<now, nextReq, crashed>>
  /\ UNCHANGED <<poolVars, mergeVars, frameVars, timedOut>>

\* the timeout timer of request t fires; an exception of the callback is
\* uncaught
Timeout ==
  /\ ~crashed
  /\ \E t \in timers :
       LET s == onTimeout(State, t) IN
       /\ Commit(s)
       /\ crashed' = s.threw
  /\ UNCHANGED <<now, nextReq>>
  /\ UNCHANGED <<poolVars, mergeVars, frameVars, timedOut>>

\* the worker answers a request written to it
WorkerRespond(lines) ==
  /\ ~crashed
  /\ \E p \in DOMAIN procs, line \in lines :
       /\ procs[p].st = "running"
       /\ procs[p].pending > 0
       /\ procs[p].out = <<>>
       /\ procs' = [procs EXCEPT ![p].out = line \o <<NL>>, ![p].pending = @ - 1]
  /\ lastSettled' = <<>>
  /\ calls' = <<>>
  /\ UNCHANGED <<envVars, now, nextReq>>
  /\ UNCHANGED <<poolVars, mergeVars, frameVars, timedOut>>

\* the characters of the text blocks of a line
RECURSIVE Concat(_)
Concat(content) == IF content = <<>> THEN <<>> ELSE Head(content) \o Concat(Tail(content))

\* the worker reports its session or streams text while it works on a
\* request; it holds text back once MaxText characters are streamed
WorkerEmit(lines) ==
  /\ ~crashed
  /\ \E p \in DOMAIN procs, line \in lines :
       /\ procs[p].st = "running"
       /\ procs[p].pending > 0
       /\ procs[p].out = <<>>
       /\ Len(fullText) + Len(Concat(ParseLine(line).content)) <= MaxText
       /\ procs' = [procs EXCEPT ![p].out = line \o <<NL>>]
  /\ lastSettled' = <<>>
  /\ calls' = <<>>
  /\ UNCHANGED <<envVars, now, nextReq>>
  /\ UNCHANGED <<poolVars, mergeVars, frameVars, timedOut>>

\* stdout 'data' of a process, also of one that was killed and has not exited:
\* the next n fragments of its output
ProcData(whole) ==
  /\ ~crashed
  /\ \E p \in DOMAIN procs :
       /\ procs[p].st \in {"running", "killed"}
       /\ \E n \in 1..Len(procs[p].out) :
            /\ whole => n = Len(procs[p].out)
            /\ LET data == SubSeq(procs[p].out, 1, n)
                   s0 == [State EXCEPT !.procs[p].out = SubSeq(@, n + 1, Len(@))]
               IN Commit(handleOutput(s0, data))
  /\ UNCHANGED <<now, nextReq, crashed>>
  /\ UNCHANGED <<poolVars, mergeVars, frameVars, timedOut>>

\* 'close' of a process in one of the states sts
ProcCloseOf(sts) ==
  /\ ~crashed
  /\ \E p \in DOMAIN procs :
       /\ procs[p].st \in sts
       /\ LET s == onClose(State, p) IN
          /\ Commit(s)
          /\ crashed' = s.threw
  /\ UNCHANGED <<now, nextReq>>
  /\ UNCHANGED <<poolVars, mergeVars, frameVars, timedOut>>

\* 'close' of a process: it exited, by itself, after a kill or after a failure
ProcClose == ProcCloseOf({"running", "killed", "failed"})

\* 'error' of a process: it could not be spawned
ProcError ==
  /\ ~crashed
  /\ \E p \in DOMAIN procs :
       /\ procs[p].st = "running"
       /\ Commit(onError(State, p))
  /\ UNCHANGED <<now, nextReq, crashed>>
  /\ UNCHANGED <<poolVars, mergeVars, frameVars, timedOut>>

Tick(maxTicks) ==
  /\ ~crashed
  /\ now < StartTime + maxTicks * TickMs
  /\ now' = now + TickMs
  /\ lastSettled' = <<>>
  /\ calls' = <<>>
  /\ UNCHANGED <<envVars, procs, nextReq>>
  /\ UNCHANGED <<poolVars, mergeVars, frameVars, timedOut>>

Init == InitWith(1..MaxReq) /\ NoPool /\ NoMerge /\ NoFrame

Next ==
  \/ Run(MaxReq)
  \/ Cancel
  \/ Shutdown
  \/ ResetCircuitBreaker
  \/ Timeout
  \/ WorkerRespond({OkLine, ErrLine})
  \/ ProcData(FALSE)
  \/ ProcClose
  \/ ProcError
  \/ Tick(MaxTicks)

Spec == Init /\ [][Next]_vars


InitB == InitWith(1..MaxReqB) /\ NoPool /\ NoMerge /\ NoFrame

NextB ==
  \/ Run(MaxReqB)
  \/ Cancel
  \/ Timeout
  \/ WorkerRespond({OkLine})
  \/ ProcData(TRUE)
  \/ ProcClose
  \/ ResetCircuitBreaker
  \/ Tick(MaxTicksB)

BreakerSpec == InitB /\ [][NextB]_vars

InitC == InitWith(1..MaxReqC) /\ NoPool /\ NoMerge /\ NoFrame

NextC ==
  \/ Run(MaxReqC)
  \/ Cancel
  \/ Timeout
  \/ WorkerRespond({OkLine})
  \/ ProcData(TRUE)
  \/ ProcClose
  \/ Tick(MaxTicksC)

CancelSpec == InitC /\ [][NextC]_vars

\* ------------------------------------------ one Session: streamed responses
InitT == InitWith(1..MaxReqT) /\ NoPool /\ NoMerge /\ NoFrame

NextT ==
  \/ Run(MaxReqT)
  \/ Cancel
  \/ Timeout
  \/ WorkerEmit({InitLine, TextALine, TextBALine})
  \/ WorkerRespond({OkLine, OkALine, OkBLine, ErrLine, ErrALine})
  \/ ProcData(TRUE)
  \/ ProcClose

TextSpec == InitT /\ [][NextT]_vars

\* ---------------------------------------------- one Session: error results
InitE == InitWith(1..MaxReqE) /\ NoPool /\ NoMerge /\ NoFrame

NextE ==
  \/ Run(MaxReqE)
  \/ Cancel
  \/ WorkerRespond({ErrLine, ErrALine})
  \/ ProcData(TRUE)
  \/ ProcClose

ErrorSpec == InitE /\ [][NextE]_vars

\* ------------------------------------- one Session: a worker that exits idle
InitI == InitWith(1..MaxReqI) /\ NoPool /\ NoMerge /\ NoFrame

NextI ==
  \/ Run(MaxReqI)
  \/ WorkerRespond({OkLine})
  \/ ProcData(TRUE)
  \/ ProcClose
  \/ ProcError

IdleSpec == InitI /\ [][NextI]_vars

\* ----------------------------- one Session: kills by timeout and by cancel
InitK == InitWith(1..MaxReqK) /\ NoPool /\ NoMerge /\ NoFrame

\* the timeout timer of request t fires; the process the callback kills is
\* recorded
TimeoutKill ==
  /\ ~crashed
  /\ \E t \in timers :
       LET s == onTimeout(State, t) IN
       /\ Commit(s)
       /\ crashed' = s.threw
  /\ timedOut' = IF currentItem # 0 /\ process # 0 THEN timedOut \cup {process}
                 ELSE timedOut
  /\ UNCHANGED <<now, nextReq>>
  /\ UNCHANGED <<poolVars, mergeVars, frameVars>>

NextK ==
  \/ Run(MaxReqK)
  \/ Cancel
  \/ TimeoutKill
  \/ ProcClose

KillSpec == InitK /\ [][NextK]_vars

\* a process that was killed or that failed has not exited yet
EndedProcess ==
  ~crashed /\ \E p \in DOMAIN procs : procs[p].st \in {"killed", "failed"}

\* a timeout timer is armed
TimerArmed == ~crashed /\ timers # {}

\* The clock advances; a process that was killed or failed exits; an armed
\* timer fires. The last two are the weak fairness of ProcCloseOf and of
\* Timeout, written with their enabling conditions as state predicates.
FairCancelSpec ==
  /\ CancelSpec
  /\ WF_vars(Tick(MaxTicksC))
  /\ <>[]EndedProcess => []<><<ProcCloseOf({"killed", "failed"})>>_vars
  /\ <>[]TimerArmed => []<><<Timeout>>_vars

\* a running process has a request to answer
AnswerDue ==
  ~crashed /\ \E p \in DOMAIN procs :
                procs[p].st = "running" /\ procs[p].pending > 0 /\ procs[p].out = <<>>

\* a process has written output that is not read yet
OutputDue ==
  ~crashed /\ \E p \in DOMAIN procs :
                procs[p].st \in {"running", "killed"} /\ procs[p].out # <<>>

\* Moreover every process answers the requests written to it and its output
\* is read.
FairSettleSpec ==
  /\ FairCancelSpec
  /\ <>[]AnswerDue => []<><<WorkerRespond({OkLine})>>_vars
  /\ <>[]OutputDue => []<><<ProcData(TRUE)>>_vars

\* ------------------------------------------------------------ RunnerManager
\* the requests callers dispatch to the pool, in PoolSpec or in RecencySpec
PoolReqs == 1..(IF MaxPoolReqR > MaxPoolReq THEN MaxPoolReqR ELSE MaxPoolReq)

\* a PersistentRunner of the pool at the current time, before a call on it
AtNow(s) == [s EXCEPT !.now = now, !.lastSettled = <<>>, !.calls = <<>>, !.threw = FALSE]

\* the pool as an action stores it: the clock is read at each call, and
\* lastSettled of a runner holds what the last step settled
Park(pl) == [i \in 1..Len(pl) |-> [pl[i] EXCEPT !.runner.now = StartTime]]

Fresh(pl) ==
  [i \in 1..Len(pl) |-> [pl[i] EXCEPT !.runner.lastSettled = <<>>, !.runner.calls = <<>>]]

PoolKeys(pl) == {pl[i].key : i \in 1..Len(pl)}

IndexOf(pl, k) == CHOOSE i \in 1..Len(pl) : pl[i].key = k

\* Map.delete
Delete(pl, k) == SelectSeq(pl, LAMBDA e : e.key # k)

\* JavaScript truthiness of a string or null
Truthy(k) == k # NullKey /\ k # ""

\* the scan of evictLRU: oldestTime is <<>> for Infinity
RECURSIVE OldestChannel(_, _, _)
OldestChannel(pl, oldestChannel, oldestTime) ==
  IF pl = <<>> THEN oldestChannel
  ELSE IF oldestTime = <<>> \/ Head(pl).lastUsed < oldestTime[1]
       THEN OldestChannel(Tail(pl), Head(pl).key, <<Head(pl).lastUsed>>)
       ELSE OldestChannel(Tail(pl), oldestChannel, oldestTime)

\* runner.shutdown() of the entry of key k
ShutdownEntry(pl, k) ==
  [pl EXCEPT ![IndexOf(pl, k)].runner = shutdown(AtNow(@))]

evictLRU(pl) ==
  LET oldestChannel == OldestChannel(pl, NullKey, <<>>)
  IN IF Truthy(oldestChannel)
     THEN Delete(ShutdownEntry(pl, oldestChannel), oldestChannel)
     ELSE pl

\* getOrCreateRunner without the lookup: a new entry at every call
getOrCreateRunnerAlways(pl, channelId) ==
  LET pl1 == IF Len(pl) >= maxProcesses THEN evictLRU(pl) ELSE pl
  IN Append(pl1, [key |-> channelId, lastUsed |-> now,
                  runner |-> InitSession(PoolReqs)])

getOrCreateRunner(pl, channelId) ==
  IF channelId \in PoolKeys(pl)
  THEN [pl EXCEPT ![IndexOf(pl, channelId)].lastUsed = now]
  ELSE
    LET pl1 == IF Len(pl) >= maxProcesses THEN evictLRU(pl) ELSE pl
    IN Append(pl1, [key |-> channelId, lastUsed |-> now,
                    runner |-> InitSession(PoolReqs)])

RECURSIVE cleanupIdle(_, _)
cleanupIdle(pl, toRemove) ==
  IF toRemove = <<>> THEN pl
  ELSE cleanupIdle(Delete(ShutdownEntry(pl, Head(toRemove)), Head(toRemove)),
                   Tail(toRemove))

\* the scan of cleanupIdle taking an entry from the idle timeout on
IdleEntriesFrom(pl) == SelectSeq(pl, LAMBDA e : now - e.lastUsed >= IdleTimeoutMs)

IdleEntries(pl) == SelectSeq(pl, LAMBDA e : now - e.lastUsed > IdleTimeoutMs)

KeysOf(pl) == [i \in 1..Len(pl) |-> pl[i].key]

ChannelId(arg) == IF arg = <<>> THEN DEFAULT_CHANNEL ELSE arg[1]

\* PersistentRunner.setSessionId: the token is written into the Session
setSessionId(s, token) == [s EXCEPT !.sessionId = token]

\* run of the pool without the call of setSessionId
managerRunNoToken(pl, arg, token, r) ==
  LET channelId == ChannelId(arg)
      pl1 == getOrCreateRunner(pl, channelId)
  IN [pl1 EXCEPT ![IndexOf(pl1, channelId)].runner = run(AtNow(@), r)]

\* token is options.sessionId, "" when the caller passes none
managerRun(pl, arg, token, r) ==
  LET channelId == ChannelId(arg)
      pl1 == getOrCreateRunner(pl, channelId)
      i == IndexOf(pl1, channelId)
      pl2 == IF token # "" THEN [pl1 EXCEPT ![i].runner = setSessionId(@, token)] ELSE pl1
  IN [pl2 EXCEPT ![i].runner = run(AtNow(@), r)]

\* cancel() without a channel: the first runner whose cancel() returns true
RECURSIVE CancelFirst(_, _)
CancelFirst(pl, i) ==
  IF i > Len(pl) THEN pl
  ELSE IF cancelReturns(pl[i].runner)
       THEN [pl EXCEPT ![i].runner = cancel(AtNow(@))]
       ELSE CancelFirst(pl, i + 1)

managerCancel(pl, arg) ==
  IF arg # <<>> /\ Truthy(arg[1]) THEN
    IF arg[1] \in PoolKeys(pl)
    THEN [pl EXCEPT ![IndexOf(pl, arg[1])].runner = cancel(AtNow(@))]
    ELSE pl
  ELSE CancelFirst(pl, 1)

managerCancelReturns(pl, arg) ==
  IF arg # <<>> /\ Truthy(arg[1]) THEN
    IF arg[1] \in PoolKeys(pl)
    THEN cancelReturns(pl[IndexOf(pl, arg[1])].runner)
    ELSE FALSE
  ELSE \E i \in 1..Len(pl) : cancelReturns(pl[i].runner)

destroy(pl, channelId) ==
  IF channelId \in PoolKeys(pl)
  THEN Delete(ShutdownEntry(pl, channelId), channelId)
  ELSE pl

destroyReturns(pl, channelId) == channelId \in PoolKeys(pl)

\* shutdown of the pool: runner.shutdown() of every entry, then pool.clear()
RECURSIVE ShutdownEach(_, _)
ShutdownEach(pl, i) ==
  IF i > Len(pl) THEN pl
  ELSE ShutdownEach([pl EXCEPT ![i].runner = shutdown(AtNow(@))], i + 1)

managerShutdown(pl) == SubSeq(ShutdownEach(pl, 1), 1, 0)

Bool(b) == IF b THEN "true" ELSE "false"

\* ------------------------------------------------------------ pool: actions
InitPool ==
  /\ InitWith(1..MaxReq)
  /\ NoMerge
  /\ NoFrame
  /\ pool = <<>>
  /\ maxProcesses \in 1..MaxCap
  /\ cleanupInterval = TRUE
  /\ poolNextReq = 1
  /\ lastReturn = "none"
  /\ lastSwept = <<>>

\* a caller calls run or runStream of the pool
ManagerRunWith(arg) ==
  /\ poolNextReq <= MaxPoolReq
  /\ LET pl == managerRun(Fresh(pool), arg, "", poolNextReq) IN
       /\ \A i \in 1..Len(pl) : ~pl[i].runner.overflow
       /\ pool' = Park(pl)
  /\ poolNextReq' = poolNextReq + 1
  /\ lastReturn' = "none"
  /\ lastSwept' = <<>>
  /\ UNCHANGED <<sessionVars, mergeVars, frameVars, timedOut, now, maxProcesses, cleanupInterval>>

ManagerRun == \E arg \in ChannelArgs : ManagerRunWith(arg)

\* a caller calls run or runStream of the pool with or without a
\* continuation token in the options
ManagerRunResume ==
  /\ poolNextReq <= MaxPoolReq
  /\ \E arg \in ChannelArgs, token \in Tokens \cup {""} :
       LET pl == managerRun(Fresh(pool), arg, token, poolNextReq) IN
       /\ \A i \in 1..Len(pl) : ~pl[i].runner.overflow
       /\ pool' = Park(pl)
  /\ poolNextReq' = poolNextReq + 1
  /\ lastReturn' = "none"
  /\ lastSwept' = <<>>
  /\ UNCHANGED <<sessionVars, mergeVars, frameVars, timedOut, now, maxProcesses, cleanupInterval>>

ManagerCancel ==
  /\ \E arg \in ChannelArgs :
       /\ pool' = Park(managerCancel(Fresh(pool), arg))
       /\ lastReturn' = Bool(managerCancelReturns(pool, arg))
  /\ lastSwept' = <<>>
  /\ UNCHANGED <<sessionVars, mergeVars, frameVars, timedOut, now, maxProcesses, cleanupInterval, poolNextReq>>

ManagerDestroy ==
  /\ \E k \in Keys \cup {DEFAULT_CHANNEL} :
       /\ pool' = Park(destroy(Fresh(pool), k))
       /\ lastReturn' = Bool(destroyReturns(pool, k))
  /\ lastSwept' = <<>>
  /\ UNCHANGED <<sessionVars, mergeVars, frameVars, timedOut, now, maxProcesses, cleanupInterval, poolNextReq>>

ManagerShutdown ==
  /\ pool # <<>> \/ cleanupInterval
  /\ pool' = managerShutdown(Fresh(pool))
  /\ cleanupInterval' = FALSE
  /\ lastReturn' = "none"
  /\ lastSwept' = <<>>
  /\ UNCHANGED <<sessionVars, mergeVars, frameVars, timedOut, now, maxProcesses, poolNextReq>>

\* the sweep timer fires, a multiple of the interval after construction
CleanupIdle ==
  /\ cleanupInterval
  /\ now >= StartTime + CLEANUP_INTERVAL_MS
  /\ pool' = Park(cleanupIdle(Fresh(pool), KeysOf(IdleEntries(pool))))
  /\ lastSwept' = SelectSeq(KeysOf(pool), LAMBDA k : k \notin PoolKeys(pool'))
  /\ lastReturn' = "none"
  /\ UNCHANGED <<sessionVars, mergeVars, frameVars, timedOut, now, maxProcesses, cleanupInterval, poolNextReq>>

\* the worker of a runner answers its in-flight request with a result line
PoolAnswer ==
  /\ \E i \in 1..Len(pool) :
       LET s == pool[i].runner IN
       /\ s.process # 0
       /\ s.currentItem # 0
       /\ s.procs[s.process].pending > 0
       /\ pool' = Park([Fresh(pool) EXCEPT ![i].runner =
                     handleOutput([AtNow(s) EXCEPT !.procs[s.process].pending = @ - 1],
                                  OkLine \o <<NL>>)])
  /\ lastReturn' = "none"
  /\ lastSwept' = <<>>
  /\ UNCHANGED <<sessionVars, mergeVars, frameVars, timedOut, now, maxProcesses, cleanupInterval, poolNextReq>>

PoolTick ==
  /\ now < StartTime + MaxPoolTicks * CLEANUP_INTERVAL_MS
  /\ now' = now + CLEANUP_INTERVAL_MS
  /\ pool' = Fresh(pool)
  /\ lastReturn' = "none"
  /\ lastSwept' = <<>>
  /\ UNCHANGED <<sessionVars, mergeVars, frameVars, timedOut, maxProcesses, cleanupInterval, poolNextReq>>

NextPool ==
  \/ ManagerRun
  \/ ManagerCancel
  \/ ManagerDestroy
  \/ ManagerShutdown
  \/ CleanupIdle
  \/ PoolAnswer
  \/ PoolTick

PoolSpec == InitPool /\ [][NextPool]_vars

\* the pool with four dispatches: runs, cancels, sweeps and the clock
ManagerRunR ==
  /\ poolNextReq <= MaxPoolReqR
  /\ \E arg \in ChannelArgs :
       LET pl == managerRun(Fresh(pool), arg, "", poolNextReq) IN
       /\ \A i \in 1..Len(pl) : ~pl[i].runner.overflow
       /\ pool' = Park(pl)
  /\ poolNextReq' = poolNextReq + 1
  /\ lastReturn' = "none"
  /\ lastSwept' = <<>>
  /\ UNCHANGED <<sessionVars, mergeVars, frameVars, timedOut, now, maxProcesses, cleanupInterval>>

NextRecency ==
  \/ ManagerRunR
  \/ ManagerCancel
  \/ CleanupIdle
  \/ PoolTick

RecencySpec == InitPool /\ [][NextRecency]_vars

\* the pool with callers that pass continuation tokens
NextResume ==
  \/ ManagerRunResume
  \/ ManagerCancel
  \/ PoolAnswer

ResumeSpec == InitPool /\ [][NextResume]_vars

\* --------------------------------------------------- mergeTexts: one call
\* the arguments are any two texts of at most MaxLen characters
InitMerge ==
  /\ InitWith(1..MaxReq)
  /\ NoPool
  /\ streamed \in TextsUpTo(MaxLen)
  /\ result \in TextsUpTo(MaxLen)
  /\ merged = <<>>
  /\ NoFrame

MergeTexts ==
  /\ merged = <<>>
  /\ merged' = <<mergeTexts(streamed, result)>>
  /\ UNCHANGED <<sessionVars, poolVars, frameVars, timedOut, now, streamed, result>>

NextMerge == MergeTexts

MergeSpec == InitMerge /\ [][NextMerge]_vars

\* ------------------------------------------------ handleOutput: data events
\* the fragments of the worker's output
FrameChars == {"{ok", "ok}", "textA", SP, NL}

OutputsUpTo(n) == UNION {[1..k -> FrameChars] : k \in 0..n}

\* a Session with request 1 written to its worker and request 2 in the queue
Reading == run(run(InitSession(Reqs), 1), 2)

\* the worker's output is any sequence of at most MaxOut fragments
InitFrame ==
  /\ InitWith(1..MaxReq)
  /\ NoPool
  /\ NoMerge
  /\ output \in OutputsUpTo(MaxOut)
  /\ unread = output
  /\ chunk = <<>>
  /\ framed = Reading
  /\ timedOut = {}

\* stdout 'data': the next n fragments of the output
ReadData ==
  /\ \E n \in 1..Len(unread) :
       /\ chunk' = SubSeq(unread, 1, n)
       /\ unread' = SubSeq(unread, n + 1, Len(unread))
       /\ framed' = handleOutput(framed, SubSeq(unread, 1, n))
  /\ UNCHANGED <<sessionVars, poolVars, mergeVars, timedOut, now, output>>

NextFrame == ReadData

FramingSpec == InitFrame /\ [][NextFrame]_vars

\* ================================================================== claims
\* the requests a step settles are settled in the order they were enqueued:
\* every request enqueued earlier is settled before
SettlesInOrder(before, settledNow) ==
  \A i \in 1..Len(settledNow) :
    \A q \in 1..(settledNow[i][1] - 1) :
      q \in before \/ \E j \in 1..(i - 1) : settledNow[j][1] = q

BreakerOpen == crashCount >= MAX_CRASHES /\ now - lastCrashTime < CRASH_WINDOW_MS

\* C1: while the circuit breaker is closed and the Session is not shut down,
\* a step never settles a request before a request enqueued earlier, whatever
\* the interleaving of responses, crashes, timeouts and cancels.
C1_SettledInEnqueueOrder ==
  [][(~BreakerOpen /\ ~BreakerOpen' /\ ~shuttingDown')
       => SettlesInOrder(settledSet, lastSettled')]_vars

\* the third request resolves after a counted crash and an uncounted exit
C1_Witness ==
  /\ lastSettled = <<<<3, "resolved">>>>
  /\ settledSet = {1, 2, 3}
  /\ crashCount = 1
  /\ ~shuttingDown
  /\ \E p \in DOMAIN procs : procs[p].st = "killed"

\* the requests whose line was written and whose promise is not settled
InFlight == {r \in DOMAIN sentTo : sentTo[r] # 0 /\ r \notin settledSet}

\* C2: at most one request of the Session is written and not settled, it is
\* the current item, and no request waiting in the queue has been written.
C2_OneInFlight ==
  /\ Cardinality(InFlight) <= 1
  /\ InFlight \subseteq {currentItem}
  /\ \A i \in 1..Len(queue) : sentTo[queue[i]] = 0 /\ queue[i] # currentItem

\* one request in flight and two waiting behind it
C2_Witness ==
  /\ InFlight = {1}
  /\ queue = <<2, 3>>

\* ---------------------------------------------------------------- the pool
\* C3: whatever the capacity and the keys the callers pass, the empty string
\* among them, the pool never holds more entries than maxProcesses.
C3_PoolWithinCapacity == Len(pool) <= maxProcesses

\* the entries of pl with the smallest lastUsed
LeastRecentlyUsed(pl) ==
  {i \in 1..Len(pl) : \A j \in 1..Len(pl) : pl[i].lastUsed <= pl[j].lastUsed}

\* the key and the timestamp of every entry, in Map order
Recency(pl) == [i \in 1..Len(pl) |-> <<pl[i].key, pl[i].lastUsed>>]

\* C4: a request for a key that is not in a full pool removes exactly one
\* entry, one whose lastUsed is the smallest, keeps every other entry and
\* inserts the new key with lastUsed = now.
C4_MissOnFullEvictsLRU ==
  [][\A arg \in ChannelArgs :
       (/\ ManagerRunWith(arg)
        /\ ChannelId(arg) \notin PoolKeys(pool)
        /\ Len(pool) >= maxProcesses)
       => \E i \in LeastRecentlyUsed(pool) :
            Recency(pool') = Recency(Delete(pool, pool[i].key))
                               \o <<<<ChannelId(arg), now>>>>]_vars

\* ------------------------------------------------------ the circuit breaker
\* C5: a request enqueued while 3 crashes are counted and less than 60 s have
\* elapsed since the last one is rejected with the circuit-breaker error, and
\* no process is spawned.
C5_OpenBreakerRefuses ==
  [][(nextReq' # nextReq /\ BreakerOpen)
       => /\ <<nextReq, "breaker">> \in SeqToSet(lastSettled')
          /\ procs' = procs]_vars

\* C6: the request enqueued once 60 s have elapsed since the last crash of an
\* opened breaker is written to a newly spawned process, and the crash counter
\* is reset to 0.
C6_DispatchAfterCooldown ==
  [][(/\ nextReq' # nextReq
      /\ crashCount >= MAX_CRASHES
      /\ now - lastCrashTime >= CRASH_WINDOW_MS)
       => /\ sentTo'[nextReq] \notin Spawned(procs) \cup {0}
          /\ crashCount' = 0]_vars

\* C7: a request is rejected with the circuit-breaker error only when the last
\* three counted crashes lie within one window of 60 s.
C7_OpensOnlyWithinWindow ==
  \A i \in 1..Len(lastSettled) :
    lastSettled[i][2] = "breaker" =>
      /\ Len(crashTimes) >= MAX_CRASHES
      /\ crashTimes[Len(crashTimes)] - crashTimes[Len(crashTimes) - MAX_CRASHES + 1]
           <= CRASH_WINDOW_MS

\* ------------------------------------------------------- cancel and timeout
\* C8: cancel() without a current request changes nothing; with one it returns
\* true, rejects exactly that request as cancelled, leaves its worker process
\* killed, and rejects or drops no queued request.
C8_CancelEffect ==
  [][Cancel =>
       IF ~cancelReturns(State)
       THEN UNCHANGED <<process, processAlive, queue, currentItem, buffer,
                        shuttingDown, cancelling, crashCount, lastCrashTime,
                        procs, timers, sentTo, settledSet>>
       ELSE /\ ~cancel(State).threw
            /\ lastSettled' = <<<<currentItem, "cancelled">>>>
            /\ sentTo[currentItem] # 0
            /\ procs'[sentTo[currentItem]].st # "running"
            /\ \/ queue' = queue
               \/ /\ queue # <<>>
                  /\ queue' = Tail(queue)
                  /\ currentItem' = Head(queue)]_vars

\* C10: when the timer of the current request fires, the request is rejected
\* with the timeout error, its worker process is killed, the buffer is
\* cleared, and the head of the queue is written to a newly spawned process.
C10_TimeoutEffect ==
  [][(Timeout /\ currentItem # 0) =>
       /\ <<currentItem, "timeout">> \in SeqToSet(lastSettled')
       /\ sentTo[currentItem] # 0
       /\ procs'[sentTo[currentItem]].st # "running"
       /\ buffer' = <<>>
       /\ queue # <<>> =>
            /\ sentTo'[Head(queue)] \notin Spawned(procs) \cup {0}
            /\ procs'[sentTo'[Head(queue)]].st = "running"]_vars

\* request r is in the queue when cancel() has just rejected the request in
\* flight
QueuedBehindCancelled(r) ==
  /\ r \in SeqToSet(queue)
  /\ \E c \in 1..MaxReqC : lastSettled = <<<<c, "cancelled">>>> /\ sentTo[c] # 0

\* a step writes a request only if it is the oldest waiting one, and writes it
\* to a process that runs
DispatchInOrderToLive ==
  \A r \in DOMAIN sentTo :
    (sentTo[r] = 0 /\ sentTo'[r] # 0)
      => /\ r = IF queue # <<>> THEN Head(queue) ELSE nextReq
         /\ procs'[sentTo'[r]].st = "running"

\* C9: every request that is in the queue when cancel() rejects the request
\* in flight is eventually written to a worker process, in queue order and to
\* a process that runs.
C9_QueuedDispatchedAfterCancel ==
  /\ \A r \in 2..MaxReqC : QueuedBehindCancelled(r) ~> (sentTo[r] # 0)
  /\ [][DispatchInOrderToLive]_vars

\* C9, with the circuit breaker: every request that is in the queue when
\* cancel() rejects the request in flight is eventually written to a worker
\* process, in queue order and to a process that runs, or is rejected by the
\* circuit breaker when the third crash is counted before its turn.
C9_DispatchedUnlessBreaker ==
  /\ \A r \in 2..MaxReqC :
       QueuedBehindCancelled(r)
         ~> (sentTo[r] # 0 \/ (r \in settledSet /\ crashCount >= MAX_CRASHES))
  /\ [][DispatchInOrderToLive]_vars

\* after the cancel of the first request and the exit of its process, the
\* restarted process has resolved the second request and holds the third
C9_Witness ==
  /\ procs[1].st = "closed"
  /\ crashCount = 0
  /\ sentTo[1] = 1 /\ sentTo[2] = 2 /\ sentTo[3] = 2
  /\ lastSettled = <<<<2, "resolved">>>>
  /\ currentItem = 3

\* ------------------------------------------------------------ late output
\* the step delivers output of process p, which the Session had killed
KilledOutputStep(p) ==
  /\ procs[p].st = "killed"
  /\ procs'[p].st = "killed"
  /\ Len(procs'[p].out) < Len(procs[p].out)

\* C11: output of a process that the Session killed never settles a request:
\* the request it was working on was settled at the kill, and any other
\* request was written to another process.
C11_KilledOutputIgnored ==
  [][\A p \in DOMAIN procs : KilledOutputStep(p) => lastSettled' = <<>>]_vars

\* ----------------------------------------------------------------- shutdown
\* the requests the Session of state s has accepted and not settled
Unsettled(s) == (1..(nextReq - 1)) \ s.settledSet

\* C12: in every reachable state of the Session, with or without a live
\* process, shutdown() leaves no accepted request unsettled, queued or in
\* flight: it rejects each of them with the shutting-down error.
C12_ShutdownRejectsAll ==
  LET s == shutdown(State) IN
  /\ Unsettled(s) = {}
  /\ s.queue = <<>>
  /\ s.currentItem = 0
  /\ \A i \in 1..Len(s.lastSettled) : s.lastSettled[i][2] = "shutdown"

\* C13: once shutdown() has shut the Session down, no step spawns a worker
\* process or writes a request line: not a later run, and not the exit of
\* the process that shutdown() killed.
C13_NoWorkAfterShutdown ==
  [][shuttingDown => (Spawned(procs') = Spawned(procs) /\ sentTo' = sentTo)]_vars

\* --------------------------------------------------------------- mergeTexts
\* x is y, or the end of y
IsSuffix(x, y) == \E k \in 0..Len(y) : SubSeq(y, k + 1, Len(y)) = x

\* C14: mergeTexts(s, r) is s when r is empty, r when s is empty, s when s
\* ends with r, r when r ends with s, and otherwise s, a newline and r; so
\* it is one of s, r and s + newline + r, and mergeTexts(s, s) is s.
C14_MergeFiveCases ==
  merged # <<>> =>
    LET s == streamed
        r == result
        m == merged[1]
    IN /\ (r = <<>>) => m = s
       /\ (r # <<>> /\ s = <<>>) => m = r
       /\ (r # <<>> /\ s # <<>> /\ IsSuffix(r, s)) => m = s
       /\ (r # <<>> /\ s # <<>> /\ ~IsSuffix(r, s) /\ IsSuffix(s, r)) => m = r
       /\ (r # <<>> /\ s # <<>> /\ ~IsSuffix(r, s) /\ ~IsSuffix(s, r))
            => m = s \o <<"\n">> \o r
       /\ m \in {s, r, s \o <<"\n">> \o r}
       /\ (s = r) => m = s

\* the final text repeats the end of a longer streamed text
C14_Witness ==
  /\ merged = <<streamed>>
  /\ result # <<>>
  /\ Len(result) < Len(streamed)
  /\ IsSuffix(result, streamed)

\* ------------------------------------------------------- streamed responses
\* the step delivers the whole pending output of process p: one line
Delivers(p) ==
  /\ procs[p].st \in {"running", "killed"}
  /\ procs'[p].st = procs[p].st
  /\ procs[p].out # <<>>
  /\ procs'[p].out = <<>>
  /\ buffer = <<>>

\* the event of that line
Delivered(p) == ParseLine(SubSeq(procs[p].out, 1, Len(procs[p].out) - 1))

\* the step delivers an event of one of the types to the Session
DeliversOf(types) ==
  \E p \in DOMAIN procs : Delivers(p) /\ Delivered(p).type \in types

\* fullText is the concatenation of the text blocks received since the
\* request in flight was dispatched
TextSinceDispatch ==
  /\ \A p \in DOMAIN procs :
       (Delivers(p) /\ Delivered(p).type = "assistant")
         => fullText' = fullText \o Concat(Delivered(p).content)
  /\ (currentItem' # 0 /\ currentItem' # currentItem) => fullText' = <<>>
  /\ (currentItem' # 0 /\ currentItem' = currentItem /\ ~DeliversOf({"assistant"}))
       => fullText' = fullText

\* sessionId is the token most recently received in an init or result event
LatestToken ==
  /\ \A p \in DOMAIN procs :
       (Delivers(p) /\ Delivered(p).type \in {"system", "result"}
          /\ Delivered(p).session_id # "")
         => sessionId' = Delivered(p).session_id
  /\ ~(\E p \in DOMAIN procs :
         Delivers(p) /\ Delivered(p).type \in {"system", "result"}
           /\ Delivered(p).session_id # "")
       => sessionId' = sessionId

\* the step delivers a result event of the process that the request in
\* flight was written to
ResultArrives(p, isError) ==
  /\ Delivers(p)
  /\ procs[p].st = "running"
  /\ Delivered(p).type = "result"
  /\ Delivered(p).is_error = isError
  /\ currentItem # 0
  /\ sentTo[currentItem] = p

\* C15: a success result event for the request in flight resolves it with
\* mergeTexts(the text blocks received since its dispatch, the final text)
\* and the token most recently received from the worker, and calls
\* onComplete with the same value first.
C15_SuccessResolvesMerged ==
  [][/\ TextSinceDispatch
     /\ LatestToken
     /\ \A p \in DOMAIN procs :
          ResultArrives(p, FALSE) =>
            LET text == mergeTexts(fullText, Delivered(p).result)
                value(cb) == [cb |-> cb, text |-> text, full |-> <<>>,
                              sessionId |-> sessionId']
            IN /\ calls' = <<value("onComplete"), value("resolve")>>
               /\ lastSettled' = <<<<currentItem, "resolved">>>>]_vars

\* text streamed before the final segment is kept: the request resolves with
\* the streamed "ba", a newline and the final "b", and the token of the init
\* event
C15_Witness ==
  /\ Len(calls) = 2
  /\ calls[2].cb = "resolve"
  /\ calls[2].text = <<"b", "a", "\n", "b">>
  /\ calls[2].sessionId = "t1"
  /\ lastSettled = <<<<2, "resolved">>>>

\* C16: an error result event for the request in flight calls onError and
\* rejects the request, with the final text as the message when the event
\* has one; the worker
\* process is kept, the slot is freed and the head of the queue, if any, is
\* dispatched to the same process.
C16_ErrorRejectsAndContinues ==
  [][\A p \in DOMAIN procs :
       ResultArrives(p, TRUE) =>
         LET error(cb) == [cb |-> cb, text |-> Delivered(p).result, full |-> <<>>,
                           sessionId |-> ""]
         IN /\ Len(calls') = 2
            /\ calls'[1].cb = "onError" /\ calls'[2].cb = "reject"
            /\ Delivered(p).result # <<>> => calls' = <<error("onError"), error("reject")>>
            /\ lastSettled' = <<<<currentItem, "upstream">>>>
            /\ procs'[p].st = "running"
            /\ Spawned(procs') = Spawned(procs)
            /\ IF queue = <<>> THEN currentItem' = 0
               ELSE /\ currentItem' = Head(queue)
                    /\ queue' = Tail(queue)
                    /\ sentTo'[Head(queue)] = p]_vars

\* ----------------------------------------------------------- process exit
\* the step is the 'close' event of process p
Closes(p) == procs[p].st # "closed" /\ procs'[p].st = "closed"

\* C17: a process exit while the Session is neither shutting down nor
\* cancelling adds one to the crash counter and rejects the request in
\* flight, if any, with the exit error, without queueing or writing it
\* again; below three crashes the head of the queue is dispatched to a newly
\* spawned process and the rest of the queue is unchanged; from three on
\* every queued request is rejected and the queue is empty.
C17_UnexpectedExit ==
  [][\A p \in DOMAIN procs :
       (Closes(p) /\ ~shuttingDown /\ ~cancelling) =>
         /\ crashCount' = crashCount + 1
         /\ (currentItem # 0 /\ currentItem \notin settledSet) =>
              /\ lastSettled' # <<>>
              /\ lastSettled'[1] = <<currentItem, "exit">>
              /\ currentItem \notin SeqToSet(queue')
              /\ currentItem' # currentItem
              /\ sentTo'[currentItem] = sentTo[currentItem]
         /\ IF crashCount' < MAX_CRASHES
            THEN IF queue = <<>> THEN queue' = <<>> /\ currentItem' = 0
                 ELSE /\ queue' = Tail(queue)
                      /\ currentItem' = Head(queue)
                      /\ sentTo'[Head(queue)] \notin Spawned(procs)
                      /\ procs'[sentTo'[Head(queue)]].st = "running"
                      /\ process' = sentTo'[Head(queue)]
            ELSE /\ queue' = <<>>
                 /\ currentItem' = 0
                 /\ \A i \in 1..Len(queue) : queue[i] \in settledSet'
                 /\ \A i \in 1..Len(lastSettled') :
                      lastSettled'[i][1] # currentItem => lastSettled'[i][2] = "breaker"]_vars

\* the third crash: the request in flight is rejected with the exit error
\* and the two queued requests with the circuit-breaker error
C17_Witness ==
  /\ crashCount = MAX_CRASHES
  /\ Len(lastSettled) = 3
  /\ lastSettled[1][2] = "exit"
  /\ lastSettled[2][2] = "breaker"
  /\ lastSettled[3][2] = "breaker"
  /\ queue = <<>>
  /\ ~cancelling

\* ------------------------------------------------------------ the idle sweep
\* the step is a run of the sweep timer: the timer stays set, no call
\* returns, no request is dispatched, the clock stands and no runner that
\* stays in the pool changes
SweepStep ==
  /\ cleanupInterval /\ cleanupInterval'
  /\ lastReturn' = "none"
  /\ poolNextReq' = poolNextReq
  /\ now' = now
  /\ \A j \in 1..Len(pool') : \E i \in 1..Len(pool) : pool'[j] = Fresh(pool)[i]

\* the step dispatches request r to the pool
DispatchStep(r) == poolNextReq = r /\ poolNextReq' = r + 1

\* the entry holds request r
Holds(e, r) ==
  \/ e.runner.currentItem = r
  \/ r \in SeqToSet(e.runner.queue)
  \/ r \in e.runner.settledSet

\* C18: the idle sweep removes exactly the entries whose lastUsed is more
\* than the idle timeout ago, whatever the fill of the pool, and keeps the
\* others in order; lastUsed of an entry is the time of its last dispatch.
C18_SweepRemovesIdleOnly ==
  [][/\ SweepStep =>
          Recency(pool') =
            Recency(SelectSeq(pool, LAMBDA e : ~(now - e.lastUsed > IdleTimeoutMs)))
     /\ \A r \in PoolReqs :
          DispatchStep(r) =>
            /\ \E j \in 1..Len(pool') : Holds(pool'[j], r) /\ pool'[j].lastUsed = now
            /\ \A j \in 1..Len(pool') :
                 ~Holds(pool'[j], r) =>
                   \E i \in 1..Len(pool) :
                     pool[i].key = pool'[j].key /\ pool[i].lastUsed = pool'[j].lastUsed
     /\ (\A r \in PoolReqs : ~DispatchStep(r)) =>
          \A j \in 1..Len(pool') :
            \E i \in 1..Len(pool) :
              pool[i].key = pool'[j].key /\ pool[i].lastUsed = pool'[j].lastUsed]_vars

\* a sweep removed the entry of the empty key, idle for two intervals, and
\* kept an entry that is idle for exactly the idle timeout
C18_Witness ==
  /\ lastSwept = <<"">>
  /\ Len(pool) = 1
  /\ now - pool[1].lastUsed = IdleTimeoutMs

\* --------------------------------------------------------------- pool cancel
\* the pool pl after cancel() of the runner of entry i alone
CancelOnly(pl, i) == [pl EXCEPT ![i].runner = cancel(AtNow(@))]

\* C19: in every state of the pool and for every key, the empty string among
\* them, cancel(key) cancels only the runner stored under the key and
\* returns what that runner's cancel returns, or changes nothing and returns
\* false when the key is not in the pool; cancel() without a key cancels the
\* first runner in pool order that has a request in flight, no other, and
\* returns true exactly when there is one.
C19_PoolCancel ==
  LET pl == Fresh(pool) IN
  /\ \A k \in Keys \cup {DEFAULT_CHANNEL} :
       IF k \in PoolKeys(pl)
       THEN /\ managerCancel(pl, <<k>>) = CancelOnly(pl, IndexOf(pl, k))
            /\ managerCancelReturns(pl, <<k>>) = cancelReturns(pl[IndexOf(pl, k)].runner)
       ELSE /\ managerCancel(pl, <<k>>) = pl
            /\ managerCancelReturns(pl, <<k>>) = FALSE
  /\ LET busy == {i \in 1..Len(pl) : pl[i].runner.currentItem # 0} IN
       IF busy = {}
       THEN /\ managerCancel(pl, <<>>) = pl
            /\ managerCancelReturns(pl, <<>>) = FALSE
       ELSE /\ managerCancel(pl, <<>>) =
                 CancelOnly(pl, CHOOSE i \in busy : \A j \in busy : i <= j)
            /\ managerCancelReturns(pl, <<>>) = TRUE

Held(s) == SeqToSet(s.queue) \cup ({s.currentItem} \ {0})

\* after is runner before, shut down: its process, if any, is killed, and
\* every request it held is rejected and none is queued or in flight
IsShutDown(before, after) ==
  /\ after.process = 0
  /\ ~after.processAlive
  /\ before.process # 0 => after.procs[before.process].st # "running"
  /\ Held(after) = {}
  /\ Held(before) \ before.settledSet \subseteq after.settledSet

\* the return value and the frame of destroy(k) in the pool pl
DestroyFrame(pl, k) ==
  /\ destroyReturns(pl, k) = (k \in PoolKeys(pl))
  /\ IF k \in PoolKeys(pl)
     THEN destroy(pl, k) = SelectSeq(pl, LAMBDA e : e.key # k)
     ELSE destroy(pl, k) = pl

\* C21: in every state of the pool and for every key, destroy(key) returns
\* true exactly when the key is in the pool; it then removes that entry alone,
\* with its Session shut down, and leaves every other entry as it is; when it
\* returns false the pool is unchanged.
C21_DestroyEffect ==
  LET pl == Fresh(pool) IN
  \A k \in Keys \cup {DEFAULT_CHANNEL} :
    /\ DestroyFrame(pl, k)
    /\ k \in PoolKeys(pl) =>
         LET i == IndexOf(pl, k)
         IN IsShutDown(pl[i].runner, ShutdownEntry(pl, k)[i].runner)

\* ------------------------------------------------------- one Session per key
\* C22: the pool holds one entry per key; in every state and for every
\* channel argument, a run for a key in the pool hands the request to the
\* Session already stored under the key and keeps the keys of the pool, a
\* run for a new key adds one entry with a new Session, and a run without a
\* key is a run for the key "__default__".
C22_OneSessionPerKey ==
  /\ Cardinality(PoolKeys(pool)) = Len(pool)
  /\ poolNextReq <= MaxPoolReq =>
       \A arg \in ChannelArgs :
         LET pl == Fresh(pool)
             r == poolNextReq
             k == IF arg = <<>> THEN "__default__" ELSE arg[1]
             after == managerRun(pl, arg, "", r)
             at == {j \in 1..Len(after) : after[j].key = k}
         IN /\ Cardinality(at) = 1
            /\ \A j \in 1..Len(after) : Holds(after[j], r) <=> j \in at
            /\ IF k \in PoolKeys(pl)
               THEN /\ KeysOf(after) = KeysOf(pl)
                    /\ \A j \in at :
                         after[j].runner = run(AtNow(pl[j].runner), r)
               ELSE /\ \A j \in at :
                         /\ j = Len(after)
                         /\ after[j].runner = run(AtNow(InitSession(PoolReqs)), r)
                    /\ \A j \in 1..(Len(after) - 1) :
                         \E i \in 1..Len(pl) : after[j] = pl[i]

\* the Session of the default key holds the first and the third request,
\* another Session the second
C22_Witness ==
  /\ Len(pool) = 2
  /\ pool[1].key = DEFAULT_CHANNEL
  /\ pool[1].runner.currentItem = 1
  /\ pool[1].runner.queue = <<3>>
  /\ pool[2].runner.currentItem = 2

\* ----------------------------------------------------------- pool: shutdown
\* the step empties the pool without a return value, a sweep or a dispatch:
\* it is shutdown() of the pool
PoolShutdownStep ==
  /\ pool # <<>>
  /\ pool' = <<>>
  /\ lastReturn' = "none"
  /\ lastSwept' = <<>>
  /\ poolNextReq' = poolNextReq

\* C23: shutdown() of the pool shuts down every Session of the pool, in
\* whatever state it is, empties the pool and stops the sweep timer; once
\* the timer is stopped it stays stopped and no sweep removes an entry.
C23_PoolShutdown ==
  [][/\ LET pl == Fresh(pool)
            sd == ShutdownEach(pl, 1)
        IN /\ managerShutdown(pl) = <<>>
           /\ \A i \in 1..Len(pl) : IsShutDown(pl[i].runner, sd[i].runner)
     /\ PoolShutdownStep => ~cleanupInterval'
     /\ ~cleanupInterval => (~cleanupInterval' /\ lastSwept' = <<>>)]_vars

\* -------------------------------------------------------------- pool: recency
\* the key of the entry that holds request r in the pool pl
KeyOfRequest(pl, r) == pl[CHOOSE j \in 1..Len(pl) : Holds(pl[j], r)].key

\* C24: a dispatch sets lastUsed of the entry it goes to, an entry already
\* in the pool included, to the current time; a dispatch for a new key to
\* a full pool evicts an entry whose lastUsed is the smallest and keeps the
\* others, so that with capacity 2 and A used after B it evicts B; no step
\* other than a dispatch changes the lastUsed of an entry.
C24_EvictionFollowsRecency ==
  [][/\ \A r \in PoolReqs :
          DispatchStep(r) =>
            /\ \E j \in 1..Len(pool') : Holds(pool'[j], r) /\ pool'[j].lastUsed = now
            /\ (KeyOfRequest(pool', r) \notin PoolKeys(pool) /\ Len(pool) >= maxProcesses)
                 => \E i \in LeastRecentlyUsed(pool) :
                      KeysOf(pool') =
                        KeysOf(Delete(pool, pool[i].key)) \o <<KeyOfRequest(pool', r)>>
            /\ (/\ KeyOfRequest(pool', r) \notin PoolKeys(pool)
                /\ maxProcesses = 2
                /\ Len(pool) = 2
                /\ pool[1].lastUsed > pool[2].lastUsed)
                 => KeysOf(pool') = <<pool[1].key, KeyOfRequest(pool', r)>>
     /\ (\A r \in PoolReqs : ~DispatchStep(r)) =>
          \A j \in 1..Len(pool') : \A i \in 1..Len(pool) :
            pool[i].key = pool'[j].key => pool[i].lastUsed = pool'[j].lastUsed]_vars

\* C25: the exit of a process that cancel killed is not counted as a crash,
\* whatever was enqueued or cancelled between the kill and the exit: the exit
\* leaves crashCount as it was, clears the cancelling flag and rejects no
\* request. (In ErrorSpec cancel is the only operation that kills a process.)
C25_CancelExitIsNoCrash ==
  [][\A p \in DOMAIN procs :
       (Closes(p) /\ procs[p].st = "killed") =>
         /\ crashCount' = crashCount
         /\ ~cancelling'
         /\ \A i \in 1..Len(lastSettled') : lastSettled'[i][2] \notin {"exit", "breaker"}]_vars

\* the onText calls the claim expects for the blocks of one assistant event,
\* full being the text received before it
RECURSIVE OnTextCalls(_, _)
OnTextCalls(full, content) ==
  IF content = <<>> THEN <<>>
  ELSE IF Head(content) = <<>> THEN OnTextCalls(full, Tail(content))
  ELSE <<[cb |-> "onText", text |-> Head(content), full |-> full \o Head(content),
          sessionId |-> ""]>>
       \o OnTextCalls(full \o Head(content), Tail(content))

\* C26: with a request in flight, an assistant event calls onText once per
\* non-empty text block, in order, with the block and the text received
\* since the request was dispatched; the accumulator is empty at dispatch,
\* only these events change it, and the event is of the process the request
\* was written to, so that text of an earlier request never reaches a later one.
C26_OnTextCumulative ==
  [][/\ TextSinceDispatch
     /\ \A p \in DOMAIN procs :
          (Delivers(p) /\ Delivered(p).type = "assistant" /\ currentItem # 0) =>
            /\ calls' = OnTextCalls(fullText, Delivered(p).content)
            /\ sentTo[currentItem] = p]_vars

\* ------------------------------------------------------------ line framing
\* what the data events have delivered so far
Consumed == SubSeq(output, 1, Len(output) - Len(unread))

\* the positions of the newlines of a text
Newlines(x) == {i \in 1..Len(x) : x[i] = NL}

NthNewline(x, k) ==
  IF k = 0 THEN 0
  ELSE CHOOSE i \in Newlines(x) : Cardinality({j \in Newlines(x) : j <= i}) = k

\* the lines of a text that end with a newline, and what follows the last
\* newline
CompleteLines(x) ==
  [k \in 1..Cardinality(Newlines(x)) |->
     SubSeq(x, NthNewline(x, k - 1) + 1, NthNewline(x, k) - 1)]

Partial(x) == SubSeq(x, NthNewline(x, Cardinality(Newlines(x))) + 1, Len(x))

Parses(line) == ParseLine(line).type # "unparseable"

\* the Session after the event handler has received the events of the lines
\* that parse, one after the other
RECURSIVE AfterEvents(_, _)
AfterEvents(s, lines) ==
  IF lines = <<>> THEN s
  ELSE AfterEvents([handleJsonMessage(s, ParseLine(Head(lines))) EXCEPT !.threw = FALSE],
                   Tail(lines))

\* the step is a data event
Reads == unread' # unread

\* C27: an unparseable line of a read changes nothing, and the lines after it
\* in the same read are processed: the Session after a read is the Session
\* after the events of the lines of the read that parse, and a read with no
\* such line changes only the buffer.
C27_UnparseableLineSkipped ==
  [][Reads =>
       LET text == framed.buffer \o chunk'
           lines == CompleteLines(text)
           rest == [framed EXCEPT !.buffer = Partial(text)]
       IN /\ framed' = AfterEvents(rest, SelectSeq(lines, Parses))
          /\ (\A k \in 1..Len(lines) : ~Parses(lines[k])) => framed' = rest]_vars

\* one read delivers half an event, a newline and a whole result event: the
\* request in flight is resolved and the next one is dispatched
C27_Witness ==
  /\ chunk = <<"ok}", NL, "{ok", "ok}", NL>>
  /\ framed.settledSet = {1}
  /\ framed.currentItem = 2
  /\ framed.buffer = <<>>

\* C28: however the output is cut into reads, the event handler has received
\* the events of the complete lines delivered so far, once each and in
\* order, and the buffer holds the incomplete last line.
C28_FramingIgnoresChunks ==
  /\ framed.buffer = Partial(Consumed)
  /\ framed = AfterEvents([Reading EXCEPT !.buffer = Partial(Consumed)],
                          SelectSeq(CompleteLines(Consumed), Parses))

\* a read ends in the middle of the result event, after a line of text: the
\* text is delivered, the half event waits in the buffer
C28_Witness ==
  /\ output = <<"textA", NL, "{ok", "ok}", NL>>
  /\ chunk = <<"textA", NL, "{ok">>
  /\ framed.buffer = <<"{ok">>
  /\ framed.fullText = <<"a">>
  /\ framed.settledSet = {}

\* ------------------------------------------------------- failures when idle
\* 'error' of process p
Fails(p) == procs[p].st = "running" /\ procs'[p].st = "failed"

\* the worker process exits or fails while no request is in flight
IdleFailure ==
  /\ currentItem = 0
  /\ process # 0
  /\ Closes(process) \/ Fails(process)

\* a caller enqueues request r
Enqueues(r) == nextReq = r /\ nextReq' = r + 1

\* C29: when the worker process exits or fails with no request in flight,
\* nothing is rejected and nothing is thrown, and the Session is only marked
\* not alive: its queue, its crash count and the time of its last crash are
\* as before. The request enqueued next, with no live process, nothing queued
\* and the circuit breaker not open, is dispatched to a new process.
C29_IdleFailureIsSilent ==
  [][/\ IdleFailure =>
          /\ lastSettled' = <<>>
          /\ ~crashed'
          /\ process' = 0 /\ ~processAlive'
          /\ <<queue, currentItem, crashCount, lastCrashTime>>'
               = <<queue, currentItem, crashCount, lastCrashTime>>
     /\ \A r \in 1..MaxReqI :
          (Enqueues(r) /\ currentItem = 0 /\ queue = <<>> /\ ~processAlive
             /\ ~BreakerOpen) =>
            /\ currentItem' = r
            /\ processAlive'
            /\ procs[process'].st = "unspawned"
            /\ sentTo'[r] = process'
            /\ lastSettled' = <<>>]_vars

\* ------------------------------------------------------------------- timers
\* the step dispatches request r: it is written to a process
Dispatched(r) == sentTo[r] = 0 /\ sentTo'[r] # 0

\* C30: the dispatch of a request arms its timer, and no settled request has
\* a timer, by whatever path it was settled; so the only timer armed is that
\* of the request in flight, and a timer that fires rejects the request it
\* was armed for and no other.
C30_TimerFollowsRequest ==
  [][/\ \A r \in Reqs : Dispatched(r) => r \in timers'
     /\ timers' \cap settledSet' = {}
     /\ timers' \subseteq {currentItem'}
     /\ Cardinality(timers') <= 1
     /\ \A i \in 1..Len(lastSettled') :
          lastSettled'[i][2] = "timeout" =>
            /\ lastSettled'[i][1] \in timers
            /\ Len(lastSettled') = 1]_vars

\* the timer of request 1 fired and rejected it; request 2 was dispatched and
\* its timer is armed
C30_Witness ==
  /\ lastSettled = <<<<1, "timeout">>>>
  /\ currentItem = 2
  /\ timers = {2}

\* -------------------------------------------------------- process lifecycle
\* the processes the Session spawned that have not exited or failed and that
\* it has not killed
Running == {p \in DOMAIN procs : procs[p].st = "running"}

\* C31: a Session owns one worker process at a time: at most one process it
\* spawned is running, that process is the one it holds as its handle, and
\* no process keeps running once the Session has dropped its handle to it.
C31_OneProcessPerSession ==
  /\ Cardinality(Running) <= 1
  /\ \A p \in Running : process = p /\ processAlive

\* --------------------------------------------------------------- exceptions
\* C32: a failure is the rejection of the request concerned and never an
\* exception: no timer callback and no process event handler has thrown, and
\* in the current state neither cancel, nor shutdown, nor run of a further
\* request throws to its caller.
C32_NothingThrows ==
  /\ ~crashed
  /\ ~crashed => /\ ~cancel(State).threw
                 /\ ~shutdown(State).threw
                 /\ ~run(State, nextReq).threw

\* ----------------------------------------------------------- circuit breaker
\* the step spawns a process
Spawns == \E p \in DOMAIN procs : procs[p].st = "unspawned" /\ procs'[p].st # "unspawned"

\* the close handler counts an exit as a crash
CountedExit ==
  /\ \E p \in DOMAIN procs : Closes(p)
  /\ crashCount' = crashCount + 1
  /\ lastCrashTime' = now

\* a spawn after the cooldown of an open breaker resets the count
CooldownReset ==
  /\ crashCount >= 3
  /\ now - lastCrashTime >= 60000
  /\ Spawns
  /\ crashCount' = 0
  /\ lastCrashTime' = lastCrashTime

ManualReset == crashCount' = 0 /\ lastCrashTime' = 0

\* C33: the breaker is open exactly when there are 3 crashes or more and the
\* last one is less than 60 s old; a spawn is refused exactly when it is
\* open; and the crash count and the time of the last crash change only by a
\* counted exit, by the reset at a spawn after the cooldown and by
\* resetCircuitBreaker.
C33_BreakerIsFunctionOfCrashes ==
  [][/\ getCircuitBreakerStatus(State).open
          <=> (crashCount >= 3 /\ now - lastCrashTime < 60000)
     /\ ~(process # 0 /\ processAlive) =>
          (ensureProcess(State).threw <=> getCircuitBreakerStatus(State).open)
     /\ (processAlive' /\ ~processAlive) => ~getCircuitBreakerStatus(State).open
     /\ <<crashCount, lastCrashTime>>' # <<crashCount, lastCrashTime>> =>
          CountedExit \/ CooldownReset \/ ManualReset]_vars

\* the breaker opened at the third crash and rejected request 4, the
\* cooldown passed, and request 5 spawned a process and reset the count
C33_Witness ==
  /\ 4 \in settledSet
  /\ currentItem = 5
  /\ processAlive
  /\ crashCount = 0
  /\ lastCrashTime # 0
  /\ now - lastCrashTime >= 60000

\* ----------------------------------------------------------------- progress
\* C34: every request that run or runStream accepted is eventually settled,
\* when processes answer or exit and armed timers fire; no request waits in
\* the queue or in the slot forever.
C34_EveryRequestSettles ==
  \A r \in 1..MaxReqC : (nextReq > r) ~> (r \in settledSet)

\* C35: while the slot of the request in flight is occupied, the Session
\* holds a live process, the request was written to that process, and the
\* request's timer is armed.
C35_InFlightHasProcessAndTimer ==
  currentItem # 0 =>
    /\ process # 0
    /\ processAlive
    /\ procs[process].st = "running"
    /\ sentTo[currentItem] = process
    /\ currentItem \in timers

\* ------------------------------------------------------------- stale exits
\* the step is the exit of process p, which the Session killed earlier, while
\* the Session holds a successor process
StaleExit(p) ==
  /\ Closes(p)
  /\ procs[p].st = "killed"
  /\ process # 0
  /\ process # p

\* C36: a request is rejected with the process-exit error only when the
\* process it was written to exits; the exit of a killed process that
\* arrives after its successor was spawned rejects nothing, keeps the
\* Session's handle to the successor and leaves the Session alive.
C36_StaleExitHarmless ==
  [][/\ \A i \in 1..Len(lastSettled') :
          lastSettled'[i][2] = "exit" =>
            LET r == lastSettled'[i][1] IN sentTo[r] # 0 /\ Closes(sentTo[r])
     /\ \A p \in DOMAIN procs :
          StaleExit(p) =>
            /\ lastSettled' = <<>>
            /\ process' = process
            /\ processAlive' = processAlive]_vars

\* ------------------------------------------------------ exits after timeouts
\* C37: the exit of a process that a timeout killed is counted as a crash:
\* it adds one to the crash count and stamps the time of the last crash, so
\* that after three such exits within the window the circuit breaker is open.
C37_TimeoutExitIsCrash ==
  [][\A p \in timedOut :
       Closes(p) =>
         /\ crashCount' = crashCount + 1
         /\ lastCrashTime' = now
         /\ Cardinality({q \in timedOut : procs'[q].st = "closed"}) >= 3 => BreakerOpen']_vars

\* ------------------------------------------------------ sweep and pending work
\* the requests a Session holds, in its slot or in its queue, that are not
\* settled
PendingWork(s) == Held(s) \ s.settledSet

\* C38: the idle sweep removes an entry only when its Session has no request
\* in flight and none queued.
C38_SweepSparesBusySessions ==
  [][SweepStep =>
       \A i \in 1..Len(pool) :
         pool[i].key \notin PoolKeys(pool') => PendingWork(pool[i].runner) = {}]_vars

\* -------------------------------------------------------- terminal callbacks
\* how many calls of callback cb the step made
CallsOf(cs, cb) == Cardinality({i \in 1..Len(cs) : cs[i].cb = cb})

\* how many requests the step resolved, and how many it rejected
Resolved(settledNow) ==
  Cardinality({i \in 1..Len(settledNow) : settledNow[i][2] = "resolved"})

Rejected(settledNow) ==
  Cardinality({i \in 1..Len(settledNow) : settledNow[i][2] # "resolved"})

\* C39: a request's terminal callback matches the outcome of its promise: a
\* step calls onComplete once for each request it resolves and onError once
\* for each request it rejects, whatever rejects it, and makes no other call
\* of them.
C39_TerminalCallbackMatches ==
  [][/\ CallsOf(calls', "onComplete") = Resolved(lastSettled')
     /\ CallsOf(calls', "onError") = Rejected(lastSettled')]_vars

\* --------------------------------------------------- mergeTexts: no text lost
IsPrefix(a, b) == Len(a) <= Len(b) /\ SubSeq(b, 1, Len(a)) = a

\* C40: the text mergeTexts returns begins or ends with the streamed text
\* and, when the final text is not empty, ends with the final text; merging
\* the final text into it once more changes nothing.
C40_MergeKeepsBothTexts ==
  merged # <<>> =>
    LET m == merged[1] IN
    /\ IsPrefix(streamed, m) \/ IsSuffix(streamed, m)
    /\ result # <<>> => IsSuffix(result, m)
    /\ mergeTexts(m, result) = m

\* two texts that share nothing are both kept, the streamed one first
C40_Witness ==
  /\ streamed = <<"a", "b">>
  /\ result = <<"b", "a">>
  /\ merged = << <<"a", "b", "\n", "b", "a">> >>

============================================================================
